---- MODULE Spec2Model ----
(***************************************************************************)
(* Contract-test suite for the transactions endpoint                      *)
(* (tests/test_transactions_api.py, utils/custom_logger.py).              *)
(*                                                                         *)
(* JSON values are tagged records: Str, Int, Bool, Null.  The text of a    *)
(* timestamp string is kept as (day of June 2025, hour, suffix), the       *)
(* suffix being what follows the seconds: "Z", "+00:00", "+01:00", ""      *)
(* (no offset) or "junk" (text datetime.fromisoformat rejects).            *)
(* A transaction is a function from the field names it carries to values.  *)
(* A Python call ends "ok" or with the name of the exception it raises.    *)
(***************************************************************************)
EXTENDS Integers, Sequences, FiniteSets, TLC

VARIABLES
    pc,            \* position of the running operation
    log,           \* lines written through the process-wide logger
    result,        \* how the operation ended: [exc, at, msg]
    transactions,  \* argument of validate_transaction_ordering
    transaction,   \* argument of validate_transaction_structure
    customer_id,   \* positional argument of make_request
    params,        \* keyword arguments of make_request
    sent,          \* query parameters handed to requests.get
    testcase,      \* the test function being run
    response,      \* first response of the service
    response2,     \* second response (test_filter_behavior_consistency)
    data,          \* parsed body of response
    data2,         \* parsed body of response2
    step,          \* index of the next statement of the test function
    idx,           \* loop index of the running for-loop
    events         \* what the test case did to the response so far

vars == <<pc, log, result, transactions, transaction, customer_id, params,
          sent, testcase, response, response2, data, data2, step, idx, events>>

(* ---------------------------- bounds ---------------------------------- *)
MaxLen == 3        \* longest list given to the ordering validator
MaxHour == 1       \* hours 0..MaxHour of a day occur in timestamps
MaxBody == 2       \* longest response body of a test case

(* ---------------------------- JSON values ----------------------------- *)
Str(s) == [t |-> "string", s |-> s]
Int_(n) == [t |-> "integer", n |-> n]
Bool(b) == [t |-> "boolean", b |-> b]
Null == [t |-> "null"]
Iso(d, h, z) == [t |-> "string", iso |-> [day |-> d, hour |-> h, zone |-> z]]

IsStr(v) == v.t = "string"
IsNumber(v) == v.t = "integer"

Range(s) == {s[i] : i \in 1..Len(s)}
SeqsUpTo(S, n) == UNION {[1..k -> S] : k \in 0..n}

NoResult == [exc |-> "none", at |-> "none", msg |-> "none"]
Ok == [exc |-> "ok", at |-> "none", msg |-> "none"]
Raise(e, where) == [exc |-> e, at |-> where, msg |-> "none"]
RaiseMsg(e, where, m) == [exc |-> e, at |-> where, msg |-> m]

(* ---------------------------- the logger ------------------------------ *)
LogError(l, m) == Append(l, [level |-> "error", msg |-> m])
LogInfo(l, m) == Append(l, [level |-> "info", msg |-> m])

(* -------------- datetime.fromisoformat(s.replace('Z', '+00:00')) ------ *)
ReplaceZ(iso) == IF iso.zone = "Z" THEN [iso EXCEPT !.zone = "+00:00"] ELSE iso

OffsetHours(zone) == IF zone = "+01:00" THEN 1 ELSE 0

\* The parsed datetime, or the exception the expression raises on value v.
ParseTimestamp(v) ==
    IF ~IsStr(v) THEN [exc |-> "AttributeError"]
    ELSE IF "iso" \notin DOMAIN v THEN [exc |-> "ValueError"]
    ELSE LET r == ReplaceZ(v.iso) IN
         IF r.zone \notin {"+00:00", "+01:00", ""} THEN [exc |-> "ValueError"]
         ELSE [exc |-> "ok", aware |-> (r.zone # ""), day |-> r.day,
               local |-> r.day * 24 + r.hour,
               utc |-> r.day * 24 + r.hour - OffsetHours(r.zone)]

InstantGEMut(a, b) == IF a.aware THEN a.utc > b.utc ELSE a.local > b.local
\* t1 >= t2 on two datetimes that are both aware or both naive
InstantGE(a, b) == IF a.aware THEN a.utc >= b.utc ELSE a.local >= b.local

\* One round of the inner loop: parse group[i], parse group[i + 1], assert.
ComparePair(a, b) ==
    IF "timestamp" \notin DOMAIN a THEN "KeyError"
    ELSE LET t1 == ParseTimestamp(a["timestamp"]) IN
    IF t1.exc # "ok" THEN t1.exc
    ELSE IF "timestamp" \notin DOMAIN b THEN "KeyError"
    ELSE LET t2 == ParseTimestamp(b["timestamp"]) IN
    IF t2.exc # "ok" THEN t2.exc
    ELSE IF t1.aware # t2.aware THEN "TypeError"
    ELSE IF InstantGE(t1, t2) THEN "ok" ELSE "AssertionError"

RECURSIVE ScanGroup(_, _)
ScanGroup(group, i) ==
    IF i > Len(group) - 1 THEN "ok"
    ELSE LET r == ComparePair(group[i], group[i + 1]) IN
         IF r # "ok" THEN r ELSE ScanGroup(group, i + 1)

(* ---------------------- validate_transaction_ordering ----------------- *)
IsTrivialMut(ts) == Len(ts) < 1
IsTrivial(ts) == Len(ts) <= 1

RECURSIVE Filter(_, _)
Filter(ts, status) ==
    IF ts = <<>> THEN <<>>
    ELSE IF Head(ts)["status"] = Str(status)
         THEN <<Head(ts)>> \o Filter(Tail(ts), status)
         ELSE Filter(Tail(ts), status)

PlacementOkMut(ts, pending) ==
    \A i \in 1..Len(pending) : ts[Len(ts) + 1 - i]["status"] = Str("Pending")
PlacementOk(ts, pending) ==
    \A i \in 1..Len(pending) : ts[i]["status"] = Str("Pending")

\* The body of the try block.
OrderingBody(ts) ==
    IF IsTrivial(ts) THEN Ok
    ELSE IF \E i \in 1..Len(ts) : "status" \notin DOMAIN ts[i]
         THEN Raise("KeyError", "partition")
    ELSE LET pending == Filter(ts, "Pending")
             booked == Filter(ts, "Booked")
         IN IF ~PlacementOk(ts, pending) THEN Raise("AssertionError", "placement")
            ELSE LET p == ScanGroup(pending, 1) IN
                 IF p # "ok" THEN Raise(p, "monotonic")
                 ELSE LET b == ScanGroup(booked, 1) IN
                      IF b # "ok" THEN Raise(b, "monotonic") ELSE Ok

\* except AssertionError: log.error(...); raise
OrderingLog(l, r) ==
    IF r.exc = "AssertionError" THEN LogError(l, "Assertion failed") ELSE l

(* ---------------------- transaction_schema ----------------------------- *)
RequiredFieldsMut ==
    {"transactionId", "amount", "currency", "merchantName", "timestamp",
     "type", "subType", "status", "categoryId"}
\* transaction_schema["required"]
RequiredFields ==
    {"transactionId", "amount", "currency", "merchantName", "timestamp",
     "type", "subType", "status", "categoryId", "description"}

\* the keys of transaction_schema["properties"]
PropertyNames ==
    {"transactionId", "amount", "currency", "merchantName", "timestamp",
     "type", "subType", "status", "categoryId", "description"}

\* transaction_schema["properties"][field] applied to value v.  No format
\* checker is passed to validate, so "format": "date-time" constrains nothing.
PropertyOk(field, v) ==
    CASE field = "transactionId" -> IsStr(v)
      [] field = "amount" -> IsNumber(v)
      [] field = "currency" -> IsStr(v)
      [] field = "merchantName" -> IsStr(v) \/ v.t = "null"
      [] field = "timestamp" -> IsStr(v)
      [] field = "type" -> IsStr(v) /\ v \in {Str("Debit"), Str("Credit")}
      [] field = "subType" -> IsStr(v)
      [] field = "status" -> IsStr(v) /\ v \in {Str("Pending"), Str("Booked")}
      [] field = "categoryId" -> v.t = "integer" /\ v.n >= 1 /\ v.n <= 20
      [] field = "description" -> IsStr(v)
      [] OTHER -> TRUE

\* validate(instance=tx, schema=transaction_schema) raises no ValidationError
SchemaValid(tx) ==
    /\ RequiredFields \subseteq DOMAIN tx
    /\ \A f \in DOMAIN tx \cap PropertyNames : PropertyOk(f, tx[f])
    /\ DOMAIN tx \subseteq PropertyNames          \* additionalProperties: False

(* ---------------------- validate_transaction_structure ---------------- *)
\* pytest.fail raises Failed, which is no AssertionError.
StructureBody(tx) ==
    IF SchemaValid(tx) THEN Ok ELSE Raise("Failed", "schema")

StructureLog(l, r) ==
    IF r.exc = "Failed" THEN LogError(l, "Schema validation failed") ELSE l

(* ---------------------- make_request ---------------------------------- *)
\* str(value) on a boolean
PyStr(b) == IF b THEN "True" ELSE "False"
LowerMut(s) == s
\* str.lower() on the text of a boolean
Lower(s) == CASE s = "True" -> "true" [] s = "False" -> "false" [] OTHER -> s

\* isinstance(value, bool)
IsBool(v) == v.t = "boolean"

\* params after the assignment of customerId and the normalising loop
BuildParams(cid, kw) ==
    LET withId == [k \in DOMAIN kw \cup {"customerId"} |->
                       IF k = "customerId" THEN cid ELSE kw[k]]
    IN [k \in DOMAIN withId |->
           IF IsBool(withId[k]) THEN Str(Lower(PyStr(withId[k].b)))
           ELSE withId[k]]

(* ---------------------- inputs ---------------------------------------- *)
Hours == 0..MaxHour
Zones == {"Z", "+01:00", ""}

\* records as the service documents them: a status and a timestamp that parses
WellFormedTx ==
    {[status |-> Str(s), timestamp |-> Iso(4, h, z)] :
        s \in {"Pending", "Booked"}, h \in Hours, z \in Zones}

\* records that carry some status
StatusTx ==
    {[status |-> Str(s), timestamp |-> Iso(4, h, "Z")] :
        s \in {"Pending", "Booked", "Cancelled"}, h \in Hours}

\* records of any shape
ArbitraryTx ==
    { << >>,
      [status |-> Str("Pending")],
      [timestamp |-> Iso(4, 0, "Z")],
      [status |-> Str("Booked"), timestamp |-> Iso(4, 0, "junk")],
      [status |-> Str("Booked"), timestamp |-> Str("yesterday")],
      [status |-> Str("Booked"), timestamp |-> Null],
      [status |-> Null, timestamp |-> Iso(4, 0, "Z")],
      [status |-> Str("Booked"), timestamp |-> Iso(4, 0, "Z")] }

ValidTx ==
    [transactionId |-> Str("t1"), amount |-> Int_(-1), currency |-> Str("SEK"),
     merchantName |-> Null, timestamp |-> Iso(4, 0, "Z"), type |-> Str("Debit"),
     subType |-> Str("Card"), status |-> Str("Booked"), categoryId |-> Int_(11),
     description |-> Str("coffee")]

ExtraFields == {"balance", "id"}
ExtraValue == Str("x")

CandidateValues ==
    {Str("x"), Str("Debit"), Str("Pending"), Int_(0), Int_(11), Int_(21),
     Null, Bool(TRUE), Iso(4, 0, "junk")}

\* any subset of the known and the extra fields, with valid values
SubsetTx ==
    {[f \in fs |-> IF f \in ExtraFields THEN ExtraValue ELSE ValidTx[f]] :
        fs \in SUBSET (PropertyNames \cup ExtraFields)}

\* every field present, one of them with another value
VariedTx ==
    {[ValidTx EXCEPT ![f] = v] : f \in PropertyNames, v \in CandidateValues}

ParamKeys == {"categoryId", "includePending", "customerId"}
ParamValues ==
    {Bool(TRUE), Bool(FALSE), Int_(0), Int_(1), Int_(11), Str("true"),
     Str("2025-06-04"), Null}
CustomerIds ==
    {Str("746c51bc-bdb9-44d2-9a3e-c4715bc91ee4"), Str("invalid-customer-id"), Null}
KeywordSets == UNION {[ks -> ParamValues] : ks \in SUBSET ParamKeys}

(* ---------------------- state not in use ------------------------------ *)
NoResponse == [status_code |-> 0, content_type |-> "none", body |-> << >>]

IdleValidators ==
    /\ transactions = << >>
    /\ transaction = << >>
IdleRequest ==
    /\ customer_id = Null
    /\ params = << >>
    /\ sent = << >>
IdleCase ==
    /\ testcase = "none"
    /\ response = NoResponse
    /\ response2 = NoResponse
    /\ data = << >>
    /\ data2 = << >>
    /\ step = 0
    /\ idx = 0
    /\ events = << >>

(* ---------------------- the ordering validator, called alone ---------- *)
InitOrdering ==
    /\ pc = "call"
    /\ log = << >>
    /\ result = NoResult
    /\ transactions \in SeqsUpTo(WellFormedTx, MaxLen)
                        \cup SeqsUpTo(StatusTx, MaxLen)
                        \cup SeqsUpTo(ArbitraryTx, MaxLen)
    /\ transaction = << >>
    /\ IdleRequest
    /\ IdleCase

ValidateOrdering ==
    /\ pc = "call"
    /\ result' = OrderingBody(transactions)
    /\ log' = OrderingLog(log, result')
    /\ pc' = "done"
    /\ UNCHANGED <<transactions, transaction, customer_id, params, sent,
                   testcase, response, response2, data, data2, step, idx, events>>

SpecOrdering == InitOrdering /\ [][ValidateOrdering]_vars

(* ---------------------- the schema validator, called alone ------------ *)
InitSchema ==
    /\ pc = "call"
    /\ log = << >>
    /\ result = NoResult
    /\ transactions = << >>
    /\ transaction \in SubsetTx \cup VariedTx
    /\ IdleRequest
    /\ IdleCase

ValidateStructure ==
    /\ pc = "call"
    /\ result' = StructureBody(transaction)
    /\ log' = StructureLog(log, result')
    /\ pc' = "done"
    /\ UNCHANGED <<transactions, transaction, customer_id, params, sent,
                   testcase, response, response2, data, data2, step, idx, events>>

SpecSchema == InitSchema /\ [][ValidateStructure]_vars

(* ---------------------- make_request, called alone -------------------- *)
InitRequest ==
    /\ pc = "call"
    /\ log = << >>
    /\ result = NoResult
    /\ IdleValidators
    /\ customer_id \in CustomerIds
    /\ params \in KeywordSets
    /\ sent = << >>
    /\ IdleCase

MakeRequest ==
    /\ pc = "call"
    /\ sent' = BuildParams(customer_id, params)
    /\ result' = Ok
    /\ pc' = "done"
    /\ UNCHANGED <<log, transactions, transaction, customer_id, params,
                   testcase, response, response2, data, data2, step, idx, events>>

SpecRequest == InitRequest /\ [][MakeRequest]_vars

(* ====================== the test functions ============================ *)
Step(op) == [op |-> op, n |-> 0, s |-> ""]
StepN(op, n) == [op |-> op, n |-> n, s |-> ""]
StepS(op, str) == [op |-> op, n |-> 0, s |-> str]

InvalidMsg == "\"Invalid customerId guid format\""
MissingMsg == "\"Missing customerId query parameter\""

TestCases ==
    {"test_get_all_transactions_empty_customer",
     "test_get_all_transactions_normal_customer",
     "test_invalid_customer_id",
     "test_missing_customer_id",
     "test_filter_by_category",
     "test_filter_exclude_pending",
     "test_filter_by_date_range",
     "test_transaction_structure_consistency",
     "test_transaction_ordering_consistency",
     "test_amount_sign_consistency",
     "test_filter_behavior_consistency"}

\* The statements of the try block of each test function, in source order.
Statements(tc) ==
    CASE tc = "test_get_all_transactions_empty_customer" ->
           <<Step("request"), StepN("assert_status", 200),
             Step("assert_content_type"), Step("parse_body"),
             Step("assert_is_list"), Step("assert_len_zero"), Step("log_passed")>>
      [] tc = "test_get_all_transactions_normal_customer" ->
           <<Step("request"), StepN("assert_status", 200),
             Step("assert_content_type"), Step("parse_body"),
             Step("assert_is_list"), StepN("assert_len_le", 5),
             Step("structure_loop"), Step("ordering"), Step("log_passed")>>
      [] tc = "test_invalid_customer_id" ->
           <<Step("request"), StepN("assert_status", 400),
             StepS("assert_text", InvalidMsg), Step("assert_content_type"),
             Step("log_passed")>>
      [] tc = "test_missing_customer_id" ->
           <<Step("request_bare"), StepN("assert_status", 400),
             StepS("assert_text", MissingMsg), Step("assert_content_type"),
             Step("log_passed")>>
      [] tc = "test_filter_by_category" ->
           <<Step("request"), StepN("assert_status", 200), Step("parse_body"),
             StepN("category_loop", 11)>>
      [] tc = "test_filter_exclude_pending" ->
           <<Step("request"), StepN("assert_status", 200), Step("parse_body"),
             Step("pending_loop")>>
      [] tc = "test_filter_by_date_range" ->
           <<Step("request"), StepN("assert_status", 200), Step("parse_body"),
             Step("date_loop")>>
      [] tc = "test_transaction_structure_consistency" ->
           <<Step("request"), StepN("assert_status", 200), Step("parse_body"),
             Step("structure_loop"), Step("log_passed")>>
      [] tc = "test_transaction_ordering_consistency" ->
           <<Step("request"), StepN("assert_status", 200), Step("parse_body"),
             Step("ordering"), Step("log_passed")>>
      [] tc = "test_amount_sign_consistency" ->
           <<Step("request"), StepN("assert_status", 200), Step("parse_body"),
             Step("sign_loop"), Step("log_passed")>>
      [] tc = "test_filter_behavior_consistency" ->
           <<Step("request"), Step("request2"), StepN("assert_status", 200),
             StepN("assert_status2", 200), Step("parse_body"),
             Step("parse_body2"), Step("assert_len2_le_len1"),
             Step("no_pending_loop2"), Step("log_passed")>>

ProgramMut(tc) ==
    IF tc = "test_filter_by_category"
    THEN <<Step("request"), Step("parse_body"), StepN("assert_status", 200),
           StepN("category_loop", 11)>>
    ELSE Statements(tc)
\* the test function that runs under the name tc
Program(tc) == Statements(tc)

\* customer_id and keyword arguments of the test function's make_request call
RequestCustomer(tc) ==
    IF tc = "test_invalid_customer_id" THEN Str("invalid-customer-id")
    ELSE IF tc = "test_get_all_transactions_empty_customer"
         THEN Str("b3c8f5d2-4a6e-4c0b-9f7d-8f1c2e3a4b5c")
         ELSE Str("746c51bc-bdb9-44d2-9a3e-c4715bc91ee4")
RequestKeywords(tc) ==
    CASE tc = "test_filter_by_category" -> [categoryId |-> Int_(11)]
      [] tc = "test_filter_exclude_pending" -> [includePending |-> Bool(FALSE)]
      [] tc = "test_filter_by_date_range" ->
           [fromDate |-> Str("2025-06-04"), toDate |-> Str("2025-06-05")]
      [] tc = "test_filter_behavior_consistency" -> [includePending |-> Bool(TRUE)]
      [] OTHER -> << >>
Request2Keywords == [includePending |-> Bool(FALSE)]

(* ---------------------- what the service may answer ------------------- *)
ListBody(items) == [json |-> "list", items |-> items, text |-> "[...]"]
TextBody(text) == [json |-> "string", items |-> << >>, text |-> text]

SixValid == [i \in 1..6 |-> ValidTx]

\* The records a test function's response is drawn from: the fields the
\* function reads vary, the others are those of ValidTx.
CaseItems(tc) ==
    CASE tc = "test_get_all_transactions_normal_customer" ->
           {[ValidTx EXCEPT !["status"] = Str(st), !["timestamp"] = Iso(4, h, "Z")] :
               st \in {"Pending", "Booked"}, h \in Hours}
           \cup {[ValidTx EXCEPT !["categoryId"] = Int_(21)]}
      [] tc = "test_filter_by_category" ->
           {[ValidTx EXCEPT !["categoryId"] = Int_(c)] : c \in {11, 12}}
      [] tc = "test_filter_exclude_pending" ->
           {[ValidTx EXCEPT !["status"] = Str(st)] : st \in {"Pending", "Booked"}}
      [] tc = "test_filter_by_date_range" ->
           {[ValidTx EXCEPT !["timestamp"] = Iso(d, 0, "Z")] : d \in {3, 4, 5, 6}}
      [] tc = "test_transaction_structure_consistency" ->
           {ValidTx, [ValidTx EXCEPT !["type"] = Str("Refund")],
            [f \in PropertyNames \ {"description"} |-> ValidTx[f]],
            [f \in PropertyNames \cup {"balance"} |->
                IF f = "balance" THEN ExtraValue ELSE ValidTx[f]]}
      [] tc = "test_transaction_ordering_consistency" ->
           {[ValidTx EXCEPT !["status"] = Str(st), !["timestamp"] = Iso(4, h, "Z")] :
               st \in {"Pending", "Booked"}, h \in Hours}
      [] tc = "test_amount_sign_consistency" ->
           {[ValidTx EXCEPT !["transactionId"] = Str(id), !["type"] = Str(ty),
                            !["amount"] = Int_(a)] :
               id \in {"t1", "t2"}, ty \in {"Debit", "Credit", "Refund"},
               a \in {-1, 0, 1}}
      [] tc = "test_filter_behavior_consistency" ->
           {[ValidTx EXCEPT !["transactionId"] = Str(id), !["status"] = Str(st)] :
               id \in {"t1", "t2"}, st \in {"Pending", "Booked"}}
      [] OTHER -> {ValidTx}

Bodies(tc) ==
    CASE tc \in {"test_invalid_customer_id", "test_missing_customer_id"} ->
           {TextBody(InvalidMsg), TextBody(MissingMsg), ListBody(<< >>)}
      [] tc \in {"test_get_all_transactions_empty_customer",
                 "test_get_all_transactions_normal_customer"} ->
           {ListBody(l) : l \in SeqsUpTo(CaseItems(tc), MaxBody)}
           \cup {ListBody(SixValid), TextBody(InvalidMsg)}
      [] OTHER -> {ListBody(l) : l \in SeqsUpTo(CaseItems(tc), MaxBody)}

StatusCodes == {200, 400}
ContentTypes(tc) ==
    IF tc = "test_filter_behavior_consistency" THEN {"application/json"}
    ELSE {"application/json", "text/html"}

Responses(tc) ==
    {[status_code |-> sc, content_type |-> ct, body |-> b] :
        sc \in StatusCodes, ct \in ContentTypes(tc), b \in Bodies(tc)}

(* ---------------------- the checks of the loops ----------------------- *)
SignOkMut(tx) ==
    IF tx["type"] = Str("Debit") THEN tx["amount"].n <= 0
    ELSE IF tx["type"] = Str("Credit") THEN tx["amount"].n > 0
    ELSE TRUE
\* the if/elif of test_amount_sign_consistency on one record
SignOk(tx) ==
    IF tx["type"] = Str("Debit") THEN tx["amount"].n < 0
    ELSE IF tx["type"] = Str("Credit") THEN tx["amount"].n > 0
    ELSE TRUE

LenLeOkMut(d2, d1) == TRUE
\* assert len(data2) <= len(data1)
LenLeOk(d2, d1) == Len(d2) <= Len(d1)

\* assert datetime(2025, 6, 4).date() <= tx_date <= datetime(2025, 6, 5).date()
DateCheck(tx) ==
    LET t == ParseTimestamp(tx["timestamp"]) IN
    IF t.exc # "ok" THEN t.exc
    ELSE IF 4 <= t.day /\ t.day <= 5 THEN "ok" ELSE "AssertionError"

HandlerLogMut(l) == l
\* except AssertionError as e: log.error(...)   (then: raise)
HandlerLog(l) == LogError(l, "Assertion failed")

(* ---------------------- how a statement ends -------------------------- *)
Now == Program(testcase)[step]
Running(op) == pc = "run" /\ step <= Len(Program(testcase)) /\ Now.op = op

\* The statement completed: go to the next one, or return from the function.
Pass(ev, newlog) ==
    /\ events' = IF ev = "" THEN events ELSE Append(events, ev)
    /\ log' = newlog
    /\ step' = step + 1
    /\ idx' = 0
    /\ IF step = Len(Program(testcase))
       THEN pc' = "done" /\ result' = Ok
       ELSE UNCHANGED <<pc, result>>

\* An assert of the test function failed: the handler logs and re-raises.
AssertFail(where, msg) ==
    /\ pc' = "done"
    /\ result' = RaiseMsg("AssertionError", where, msg)
    /\ log' = HandlerLog(log)
    /\ UNCHANGED <<step, idx, events>>

\* An exception that the handler does not catch leaves the function.
Propagate(exc, where, newlog) ==
    /\ pc' = "done"
    /\ result' = Raise(exc, where)
    /\ log' = newlog
    /\ UNCHANGED <<step, idx, events>>

\* One more round of a for-loop over items: ok, an AssertionError or another
\* exception; after the last item the loop statement completes.
LoopRound(items, outcome, where, msg, newlog) ==
    IF idx >= Len(items) THEN Pass("", log)
    ELSE IF outcome = "ok"
         THEN /\ idx' = idx + 1
              /\ log' = newlog
              /\ UNCHANGED <<pc, result, step, events>>
    ELSE IF outcome = "AssertionError" THEN AssertFail(where, msg)
    ELSE Propagate(outcome, where, newlog)

Item(items) == items[idx + 1]
More(items) == idx < Len(items)

Untouched == <<transactions, transaction, customer_id, params>>

(* ---------------------- the statements -------------------------------- *)
InitCases ==
    /\ pc = "run"
    /\ log = << >>
    /\ result = NoResult
    /\ IdleValidators
    /\ IdleRequest
    /\ testcase \in TestCases
    /\ response = NoResponse
    /\ response2 = NoResponse
    /\ data = << >>
    /\ data2 = << >>
    /\ step = 1
    /\ idx = 0
    /\ events = << >>

\* response = self.make_request(CUSTOMERS[...], ...)
DoRequest ==
    /\ Running("request")
    /\ sent' = BuildParams(RequestCustomer(testcase), RequestKeywords(testcase))
    /\ \E r \in Responses(testcase) : response' = r
    /\ Pass("request", log)
    /\ UNCHANGED <<Untouched, testcase, response2, data, data2>>

\* response = requests.get(BASE_URL, headers=HEADERS)
DoRequestBare ==
    /\ Running("request_bare")
    /\ sent' = << >>
    /\ \E r \in Responses(testcase) : response' = r
    /\ Pass("request", log)
    /\ UNCHANGED <<Untouched, testcase, response2, data, data2>>

\* r2 = self.make_request(CUSTOMERS[customer_key], includePending=False)
DoRequest2 ==
    /\ Running("request2")
    /\ sent' = BuildParams(RequestCustomer(testcase), Request2Keywords)
    /\ \E r \in Responses(testcase) : response2' = r
    /\ Pass("request2", log)
    /\ UNCHANGED <<Untouched, testcase, response, data, data2>>

\* assert response.status_code == <n>
AssertStatus ==
    /\ Running("assert_status")
    /\ IF response.status_code = Now.n
       THEN Pass("status_ok", log)
       ELSE AssertFail("status_code", "none")
    /\ UNCHANGED <<Untouched, sent, testcase, response, response2, data, data2>>

\* assert r2.status_code == 200
AssertStatus2 ==
    /\ Running("assert_status2")
    /\ IF response2.status_code = Now.n
       THEN Pass("status2_ok", log)
       ELSE AssertFail("status_code", "none")
    /\ UNCHANGED <<Untouched, sent, testcase, response, response2, data, data2>>

\* assert response.text == '"..."'
AssertText ==
    /\ Running("assert_text")
    /\ IF response.body.text = Now.s
       THEN Pass("read_text", log)
       ELSE AssertFail("text", "none")
    /\ UNCHANGED <<Untouched, sent, testcase, response, response2, data, data2>>

\* assert response.headers.get('content-type') == 'application/json'
AssertContentType ==
    /\ Running("assert_content_type")
    /\ IF response.content_type = "application/json"
       THEN Pass("content_type_ok", log)
       ELSE AssertFail("content_type", "none")
    /\ UNCHANGED <<Untouched, sent, testcase, response, response2, data, data2>>

\* data = response.json()
ParseBody ==
    /\ Running("parse_body")
    /\ data' = response.body
    /\ Pass("parse_body", log)
    /\ UNCHANGED <<Untouched, sent, testcase, response, response2, data2>>

\* data2 = r2.json()
ParseBody2 ==
    /\ Running("parse_body2")
    /\ data2' = response2.body
    /\ Pass("parse_body2", log)
    /\ UNCHANGED <<Untouched, sent, testcase, response, response2, data>>

\* assert isinstance(data, list)
AssertIsList ==
    /\ Running("assert_is_list")
    /\ IF data.json = "list" THEN Pass("", log) ELSE AssertFail("is_list", "none")
    /\ UNCHANGED <<Untouched, sent, testcase, response, response2, data, data2>>

\* assert len(data) == 0
AssertLenZero ==
    /\ Running("assert_len_zero")
    /\ IF Len(data.items) = 0 THEN Pass("", log) ELSE AssertFail("len", "none")
    /\ UNCHANGED <<Untouched, sent, testcase, response, response2, data, data2>>

\* assert len(data) <= 5
AssertLenLe ==
    /\ Running("assert_len_le")
    /\ IF Len(data.items) <= Now.n THEN Pass("", log) ELSE AssertFail("len", "none")
    /\ UNCHANGED <<Untouched, sent, testcase, response, response2, data, data2>>

\* assert len(data2) <= len(data1)
AssertLen2LeLen1 ==
    /\ Running("assert_len2_le_len1")
    /\ IF LenLeOk(data2.items, data.items)
       THEN Pass("", log) ELSE AssertFail("len", "none")
    /\ UNCHANGED <<Untouched, sent, testcase, response, response2, data, data2>>

\* for tx in data: self.validate_transaction_structure(tx)
StructureLoop ==
    /\ Running("structure_loop")
    /\ LET r == IF More(data.items) THEN StructureBody(Item(data.items)) ELSE Ok
       IN LoopRound(data.items, r.exc, "schema", "none", StructureLog(log, r))
    /\ UNCHANGED <<Untouched, sent, testcase, response, response2, data, data2>>

\* self.validate_transaction_ordering(data)
OrderingStep ==
    /\ Running("ordering")
    /\ LET r == OrderingBody(data.items) IN
       IF r.exc = "ok" THEN Pass("", log)
       ELSE IF r.exc = "AssertionError"
            THEN /\ pc' = "done"
                 /\ result' = Raise("AssertionError", "ordering")
                 /\ log' = HandlerLog(OrderingLog(log, r))
                 /\ UNCHANGED <<step, idx, events>>
       ELSE Propagate(r.exc, "ordering", log)
    /\ UNCHANGED <<Untouched, sent, testcase, response, response2, data, data2>>

\* for tx in data: assert tx['categoryId'] == 11; log.info("Test passed ...")
CategoryLoop ==
    /\ Running("category_loop")
    /\ LET r == IF More(data.items)
                   /\ Item(data.items)["categoryId"] # Int_(Now.n)
                THEN "AssertionError" ELSE "ok"
       IN LoopRound(data.items, r, "category", "none", LogInfo(log, "Test passed"))
    /\ UNCHANGED <<Untouched, sent, testcase, response, response2, data, data2>>

\* for tx in data: assert tx['status'] != 'Pending'; log.info("Test passed ...")
PendingLoop ==
    /\ Running("pending_loop")
    /\ LET r == IF More(data.items)
                   /\ Item(data.items)["status"] = Str("Pending")
                THEN "AssertionError" ELSE "ok"
       IN LoopRound(data.items, r, "pending", "none", LogInfo(log, "Test passed"))
    /\ UNCHANGED <<Untouched, sent, testcase, response, response2, data, data2>>

\* for tx in data: tx_date = ...; assert ... <= tx_date <= ...; log.info(...)
DateLoop ==
    /\ Running("date_loop")
    /\ LET r == IF More(data.items) THEN DateCheck(Item(data.items)) ELSE "ok"
       IN LoopRound(data.items, r, "date", "none",
                    IF r = "ok" THEN LogInfo(log, "Test passed") ELSE log)
    /\ UNCHANGED <<Untouched, sent, testcase, response, response2, data, data2>>

\* for tx in data: if Debit: assert amount < 0, msg  elif Credit: assert amount > 0, msg
SignLoop ==
    /\ Running("sign_loop")
    /\ LET bad == More(data.items) /\ ~SignOk(Item(data.items))
       IN LoopRound(data.items, IF bad THEN "AssertionError" ELSE "ok", "sign",
                    IF bad THEN Item(data.items)["transactionId"].s ELSE "none", log)
    /\ UNCHANGED <<Untouched, sent, testcase, response, response2, data, data2>>

\* for tx in data2: assert tx['status'] != 'Pending'
NoPendingLoop2 ==
    /\ Running("no_pending_loop2")
    /\ LET r == IF More(data2.items)
                   /\ Item(data2.items)["status"] = Str("Pending")
                THEN "AssertionError" ELSE "ok"
       IN LoopRound(data2.items, r, "pending", "none", log)
    /\ UNCHANGED <<Untouched, sent, testcase, response, response2, data, data2>>

\* log.info("Test passed: ...")
LogPassed ==
    /\ Running("log_passed")
    /\ Pass("", LogInfo(log, "Test passed"))
    /\ UNCHANGED <<Untouched, sent, testcase, response, response2, data, data2>>

NextCases ==
    \/ DoRequest \/ DoRequestBare \/ DoRequest2
    \/ AssertStatus \/ AssertStatus2 \/ AssertText \/ AssertContentType
    \/ ParseBody \/ ParseBody2
    \/ AssertIsList \/ AssertLenZero \/ AssertLenLe \/ AssertLen2LeLen1
    \/ StructureLoop \/ OrderingStep \/ CategoryLoop \/ PendingLoop
    \/ DateLoop \/ SignLoop \/ NoPendingLoop2 \/ LogPassed

SpecCases == InitCases /\ [][NextCases]_vars

(* ====================== properties ==================================== *)
Done == pc = "done"

StatusOf(tx) == tx["status"]
HasStatus(ts) == \A i \in 1..Len(ts) : "status" \in DOMAIN ts[i]

\* The text of a timestamp read as a point in time (hours), and whether the
\* text carries an offset.
TextParses(tx) ==
    /\ "timestamp" \in DOMAIN tx
    /\ "iso" \in DOMAIN tx["timestamp"]
    /\ tx["timestamp"].iso.zone \in {"Z", "+00:00", "+01:00", ""}
TextZoned(tx) == tx["timestamp"].iso.zone # ""
TextInstant(tx) ==
    LET i == tx["timestamp"].iso
    IN i.day * 24 + i.hour - (IF i.zone = "+01:00" THEN 1 ELSE 0)

PendingOrBooked(ts) ==
    /\ HasStatus(ts)
    /\ \A i \in 1..Len(ts) : StatusOf(ts[i]) \in {Str("Pending"), Str("Booked")}
AllParse(ts) == \A i \in 1..Len(ts) : TextParses(ts[i])
SameZoning(ts) == \A i, j \in 1..Len(ts) : TextZoned(ts[i]) = TextZoned(ts[j])

PendingFirst(ts) ==
    \A i, j \in 1..Len(ts) :
        i < j => ~(StatusOf(ts[i]) = Str("Booked") /\ StatusOf(ts[j]) = Str("Pending"))
Descending(ts) ==
    \A i, j \in 1..Len(ts) :
        (i < j /\ StatusOf(ts[i]) = StatusOf(ts[j]))
            => TextInstant(ts[i]) >= TextInstant(ts[j])
SortContract(ts) == PendingFirst(ts) /\ Descending(ts)

\* C1 as stated: on every list of Pending/Booked records whose timestamps
\* parse, validate_transaction_ordering returns iff Pending records come first
\* and each group's timestamps do not increase, and raises AssertionError
\* otherwise.
C1_AsStated ==
    (Done /\ PendingOrBooked(transactions) /\ AllParse(transactions))
        => /\ (result.exc = "ok") <=> SortContract(transactions)
           /\ ~SortContract(transactions) => result.exc = "AssertionError"

\* C1 amended: the same, on lists whose timestamps all carry an offset or all
\* carry none.
C1_OrderingIff ==
    (Done /\ PendingOrBooked(transactions) /\ AllParse(transactions)
          /\ SameZoning(transactions))
        => /\ (result.exc = "ok") <=> SortContract(transactions)
           /\ ~SortContract(transactions) => result.exc = "AssertionError"

\* Three records, both statuses, two Booked records that name the same
\* instant in different text, accepted.
C1_Witness ==
    /\ Done
    /\ Len(transactions) = 3
    /\ PendingOrBooked(transactions) /\ AllParse(transactions)
    /\ SameZoning(transactions)
    /\ StatusOf(transactions[1]) = Str("Pending")
    /\ StatusOf(transactions[2]) = Str("Booked")
    /\ StatusOf(transactions[3]) = Str("Booked")
    /\ transactions[2]["timestamp"] # transactions[3]["timestamp"]
    /\ TextInstant(transactions[2]) = TextInstant(transactions[3])
    /\ result.exc = "ok"

BookedBeforePending(ts) ==
    \E i, j \in 1..Len(ts) :
        i < j /\ StatusOf(ts[i]) = Str("Booked") /\ StatusOf(ts[j]) = Str("Pending")
OtherBeforePending(ts) ==
    \E i, j \in 1..Len(ts) :
        i < j /\ StatusOf(ts[i]) # Str("Pending") /\ StatusOf(ts[j]) = Str("Pending")

\* C2 as stated: on lists of two or more records that carry a status, the
\* placement check fails iff some Booked record stands before some Pending one.
C2_AsStated ==
    (Done /\ Len(transactions) >= 2 /\ HasStatus(transactions))
        => ((result.at = "placement") <=> BookedBeforePending(transactions))

\* C2 amended: the placement check fails iff some record that is not Pending
\* (Booked or of any other status) stands before some Pending one.
C2_PlacementIff ==
    (Done /\ Len(transactions) >= 2 /\ HasStatus(transactions))
        => /\ (result.at = "placement") <=> OtherBeforePending(transactions)
           /\ result.at = "placement" => result.exc = "AssertionError"

\* The placement check failed on a list without any Booked record.
C2_Witness ==
    /\ Done
    /\ Len(transactions) >= 2 /\ HasStatus(transactions)
    /\ result.at = "placement"
    /\ ~BookedBeforePending(transactions)

\* C3: a list of length 0 or 1 is accepted, whatever its record holds, and
\* nothing is logged.
C3_TrivialAccept ==
    (Done /\ Len(transactions) <= 1) => (result = Ok /\ log = << >>)

\* A single record without status and one with an unparseable timestamp were
\* accepted in silence.
C3_Witness ==
    /\ Done
    /\ Len(transactions) = 1
    /\ \/ "status" \notin DOMAIN transactions[1]
       \/ ("timestamp" \in DOMAIN transactions[1] /\ ~TextParses(transactions[1]))
    /\ result = Ok /\ log = << >>

\* the field names of a transaction
TransactionFields ==
    {"transactionId", "amount", "currency", "merchantName", "timestamp",
     "type", "subType", "status", "categoryId", "description"}
LacksField(tx) == \E f \in TransactionFields : f \notin DOMAIN tx
HasOtherField(tx) == \E f \in DOMAIN tx : f \notin TransactionFields

\* C4 as stated: required and permitted fields are one set of eleven names;
\* a record that lacks one of them or carries another field fails.
C4_AsStated ==
    Done => /\ RequiredFields = PropertyNames
            /\ Cardinality(RequiredFields) = 11
            /\ (LacksField(transaction) \/ HasOtherField(transaction))
                   => result.exc = "Failed"

\* C4 amended: required and permitted fields are one set of ten names; a
\* record that lacks one of them or carries another field fails.
C4_ClosedSchema ==
    Done => /\ RequiredFields = PropertyNames
            /\ Cardinality(RequiredFields) = 10
            /\ (LacksField(transaction) \/ HasOtherField(transaction))
                   => result.exc = "Failed"

\* A record whose only defect is one missing field failed, with an error line.
C4_Witness ==
    /\ Done
    /\ Cardinality(TransactionFields \ DOMAIN transaction) = 1
    /\ ~HasOtherField(transaction)
    /\ result.exc = "Failed"
    /\ Len(log) = 1 /\ log[1].level = "error"

TrueFalse(b) == IF b THEN Str("true") ELSE Str("false")

HasLine(level) == \E i \in 1..Len(log) : log[i].level = level
Passed == Done /\ result.exc = "ok"
Failed == Done /\ result.exc # "ok"

\* C6 as stated: a test function writes a success line iff it passes.
C6_AsStated ==
    (Done /\ testcase # "none") => (HasLine("info") <=> result.exc = "ok")

Behavior == "test_filter_behavior_consistency"
NoPending(items) == \A i \in 1..Len(items) : items[i]["status"] # Str("Pending")

BodyReads == {"read_text", "parse_body", "parse_body2"}
Before(ev, i) == \E j \in 1..(i - 1) : events[j] = ev
StatusEventOf(ev) == IF ev = "parse_body2" THEN "status2_ok" ELSE "status_ok"
AssertsContentTypeFirst ==
    {"test_get_all_transactions_empty_customer",
     "test_get_all_transactions_normal_customer"}

\* C8 as stated: in every test function the status code and the content type
\* have both been asserted, and have passed, before the body is read.
C8_AsStated ==
    \A i \in 1..Len(events) :
        events[i] \in BodyReads
            => Before(StatusEventOf(events[i]), i) /\ Before("content_type_ok", i)

\* C8 amended: in every test function the request is issued first and the
\* status code of a response has been asserted, and has passed, before its
\* body is read; the content type is asserted before the body only in
\* test_get_all_transactions_empty_customer and _normal_customer.
C8_StatusBeforeBody ==
    /\ Len(events) >= 1 => events[1] = "request"
    /\ \A i \in 1..Len(events) :
        events[i] \in BodyReads
            => /\ Before(StatusEventOf(events[i]), i)
               /\ testcase \in AssertsContentTypeFirst => Before("content_type_ok", i)
    /\ \A i \in 1..Len(events) :
        events[i] \in {"status_ok", "content_type_ok"} => Before("request", i)
    /\ Passed => \E i \in 1..Len(events) : events[i] = "status_ok"

\* A test function read the body of a response whose content type it had not
\* asserted, and passed.
C8_Witness ==
    /\ Passed
    /\ \E i \in 1..Len(events) :
          events[i] \in BodyReads /\ ~Before("content_type_ok", i)
                                  /\ Before("status_ok", i)

ExpectedStatus(tc) ==
    IF tc \in {"test_invalid_customer_id", "test_missing_customer_id"} THEN 400 ELSE 200
Items == response.body.items
SchemaTests ==
    {"test_get_all_transactions_normal_customer",
     "test_transaction_structure_consistency"}
OrderingTests ==
    {"test_get_all_transactions_normal_customer",
     "test_transaction_ordering_consistency"}
SignsOk(items) ==
    \A i \in 1..Len(items) :
        /\ items[i]["type"] = Str("Debit") => items[i]["amount"].n < 0
        /\ items[i]["type"] = Str("Credit") => items[i]["amount"].n > 0
DateInRange(tx) == tx["timestamp"].iso.day \in {4, 5}

\* A status-code, schema, ordering or business-rule check of the running test
\* function does not hold of the answers it got.
SomeCheckFails ==
    \/ response.status_code # ExpectedStatus(testcase)
    \/ testcase = Behavior /\ response2.status_code # 200
    \/ testcase \in SchemaTests /\ \E i \in 1..Len(Items) : ~SchemaValid(Items[i])
    \/ testcase \in OrderingTests /\ Len(Items) >= 2 /\ ~SortContract(Items)
    \/ testcase = "test_filter_by_category"
         /\ \E i \in 1..Len(Items) : Items[i]["categoryId"] # Int_(11)
    \/ testcase = "test_filter_exclude_pending" /\ ~NoPending(Items)
    \/ testcase = "test_filter_by_date_range"
         /\ \E i \in 1..Len(Items) : ~DateInRange(Items[i])
    \/ testcase = "test_amount_sign_consistency" /\ ~SignsOk(Items)
    \/ testcase = Behavior
         /\ (Len(response2.body.items) > Len(Items) \/ ~NoPending(response2.body.items))

\* C9: when a status-code, schema, ordering or business-rule check fails, the
\* test function ends failed and has written an error line; no function ends
\* passed after a failed check.
C9_FailureLoggedAndRaised ==
    (Done /\ testcase # "none")
        => /\ SomeCheckFails => (result.exc \in {"AssertionError", "Failed"}
                                   /\ HasLine("error"))
           /\ result.exc \in {"AssertionError", "Failed"} => HasLine("error")

\* A schema check failed inside a test function: the validator wrote the
\* error line and the failure left the function.
C9_Witness ==
    /\ Failed /\ testcase \in SchemaTests
    /\ response.status_code = 200
    /\ \E i \in 1..Len(Items) : ~SchemaValid(Items[i])
    /\ result.exc = "Failed"
    /\ Len(log) = 1 /\ log[1].level = "error"

FirstBad(items) ==
    CHOOSE i \in 1..Len(items) :
        /\ ~SignsOk(<<items[i]>>)
        /\ \A j \in 1..(i - 1) : SignsOk(<<items[j]>>)

\* C10: on a 200 response test_amount_sign_consistency passes iff every Debit
\* amount is below zero and every Credit amount above zero; otherwise it fails
\* with the transactionId of the first offending record in its message.
C10_SignIff ==
    (Done /\ testcase = "test_amount_sign_consistency" /\ response.status_code = 200)
        => /\ result.exc = "ok" <=> SignsOk(Items)
           /\ ~SignsOk(Items)
                => /\ result.exc = "AssertionError"
                   /\ result.msg = Items[FirstBad(Items)]["transactionId"].s

\* Two offending records, the first a Debit of amount 0: the first is reported.
C10_Witness ==
    /\ Failed /\ testcase = "test_amount_sign_consistency"
    /\ Len(Items) = 2
    /\ Items[1]["type"] = Str("Debit") /\ Items[1]["amount"].n = 0
    /\ ~SignsOk(<<Items[2]>>)
    /\ Items[1]["transactionId"] # Items[2]["transactionId"]
    /\ result.msg = Items[1]["transactionId"].s

====
